---- MODULE Spec2Model ----
(***************************************************************************)
(* Model of the login automation state machine (src/main.py, class         *)
(* StateMachine) with the matcher and window helpers of src/utils/screen.py *)
(* and the configuration of src/config.py.                                  *)
(*                                                                          *)
(* Time is counted in ticks of 0.5 s (the greatest common unit of           *)
(* CHECK_INTERVAL = 0.5 s, CLICK_COOLDOWN = 2.5 s and the 1 s process       *)
(* poll).  Scores are counted in hundredths (0.85 is 85, -1.0 is -100).     *)
(* run() is single threaded: pc is the position of the one thread.          *)
(***************************************************************************)
EXTENDS Integers, Sequences, FiniteSets, TLC

(***************************************************************************)
(* Configuration (src/config.py), in ticks and hundredths.                  *)
(***************************************************************************)
CHECK_INTERVAL == 1
CLICK_COOLDOWN == 5
GAME_READY_CHECK_INTERVAL == 1
PROCESS_POLL_SLEEP == 2
TEMPLATE_MATCH_THRESHOLD == 85
SENTINEL == -100

(***************************************************************************)
(* Deadlines.  config.STATE_TIMEOUTS and GAME_READY_TIMEOUT are 30 s, 45 s, *)
(* 60 s and 180 s; the code only compares elapsed time with them, and the   *)
(* model runs with shorter deadlines that still leave room for several      *)
(* polls and for two clicks within WaitLogin.                               *)
(***************************************************************************)
TIMEOUT_S1_WAIT_LOGIN == 5
TIMEOUT_S3_WAIT_MAINMENU == 1
TIMEOUT_GAME_BOOT == 1
GAME_READY_TIMEOUT == 1

\* Longest duration, in ticks, of a capture or of a focus request.
MaxDelay == 1
\* time.time() at the start of run(): seconds since 1970, far beyond the cooldown.
ClockStart == 5

Delays == 0 .. MaxDelay

\* Normalised correlation scores cv2.matchTemplate can produce, in hundredths.
Scores == {-100, 84, 85}

\* Window as seen by a lookup: no window, a window with an empty rectangle,
\* a window with a proper rectangle.
WinStates == {"absent", "zero", "normal"}

\* Width/height of window rectangles and of the monitor, and of a template.
RectSizes == {1, 3}
MonitorSize == 3
TemplateSize == 2

None == "None"
\* Stand-ins for Python's None where the other values are records or numbers.
NoRect == [width |-> 0, height |-> 0]
NoFrame == [width |-> 0, height |-> 0, source |-> "none",
            conn |-> SENTINEL - 1, main |-> SENTINEL - 1]
NoScore == SENTINEL - 1
NoTime == 0 - 1

VARIABLES
    pc,               \* position of the thread in run()
    state,            \* run(): local variable state
    clock,            \* time.time()
    start,            \* local start of the current wait
    last_click_ts,    \* self.last_click_ts
    now,              \* wait_login_with_safe_clicks: local now
    best_connecting,  \* wait_login_with_safe_clicks: local best_connecting
    best_mainmenu,    \* wait_login_with_safe_clicks: local best_mainmenu
    best_score,       \* wait_for_marker: local best_score
    img,              \* the frame captured in the current poll
    has_hwnd,         \* wait_game_ready: local has_hwnd
    focused,          \* wait_game_ready: local focused
    inHandler,        \* TRUE once the except clause of run() is executing
    failState,        \* fail(): argument state
    failReason,       \* fail(): argument reason
    outcome,          \* how the process ended
    hist              \* history of the run (observations only, never read by the code)

prog == <<pc, state, clock, start, last_click_ts, now, best_connecting, best_mainmenu,
          best_score, img, has_hwnd, focused, inHandler, failState, failReason, outcome>>
vars == <<pc, state, clock, start, last_click_ts, now, best_connecting, best_mainmenu,
          best_score, img, has_hwnd, focused, inHandler, failState, failReason, outcome, hist>>

States == {"S0_START", "S1_WAIT_LOGIN", "S2_CLICK_LOGIN", "S3_WAIT_MAINMENU", "S_OK", "S_FAIL"}

Max(S) == CHOOSE x \in S : \A y \in S : y <= x

(***************************************************************************)
(* Pure helpers.                                                            *)
(***************************************************************************)

\* screen._get_window_handle: FindWindow returns 0 when there is no window.
GetWindowHandle(w) == IF w = "absent" THEN None ELSE "hwnd"

\* Variant of GetWindowRect that hands out the rectangle of a window that has
\* no positive width and height.
GetWindowRect_IgnoresEmpty(w, rw, rh) ==
    IF w = "absent" THEN [width |-> 0, height |-> 0]
    ELSE [width |-> rw, height |-> rh]

\* screen._get_window_rect / get_window_rect: None without a window or when
\* the rectangle has no positive width and height.
GetWindowRect(w, rw, rh) ==
    IF GetWindowHandle(w) = None THEN NoRect
    ELSE IF w = "zero" THEN NoRect
    ELSE [width |-> rw, height |-> rh]

\* screen.capture_window: the window's rectangle, or the whole monitor when
\* the rectangle is unavailable: the pixel dimensions of the frame.
CaptureWindow(w, rw, rh) ==
    IF GetWindowRect(w, rw, rh) = NoRect
    THEN [width |-> MonitorSize, height |-> MonitorSize, source |-> "monitor"]
    ELSE [width |-> rw, height |-> rh, source |-> "window"]

\* A captured frame: the pixel dimensions and source capture_window gives it,
\* and what the frame shows, as the best normalised correlation cv2.matchTemplate
\* finds in it for the connecting marker and for the main-menu marker
\* (wait_for_marker looks for the main-menu marker only: its frames carry no
\* correlation for the other one).
Frame(shot, c, m) ==
    [width |-> shot.width, height |-> shot.height, source |-> shot.source,
     conn |-> c, main |-> m]

\* Variant of TemplateMatch that returns the correlation only for a match.
TemplateMatch_ScoreOnlyOnMatch(frame, readable, max_val) ==
    IF ~readable
    THEN [matched |-> FALSE, pos |-> None, score |-> 0]
    ELSE IF frame.height < TemplateSize \/ frame.width < TemplateSize
    THEN [matched |-> FALSE, pos |-> None, score |-> 0]
    ELSE IF max_val >= TEMPLATE_MATCH_THRESHOLD
    THEN [matched |-> TRUE, pos |-> "center", score |-> max_val]
    ELSE [matched |-> FALSE, pos |-> None, score |-> 0]

\* Variant of TemplateMatch without the size test: the correlation of a frame
\* smaller than the template is returned as it comes.
TemplateMatch_NoSizeTest(frame, readable, max_val) ==
    IF ~readable
    THEN [matched |-> FALSE, pos |-> None, score |-> 0]
    ELSE IF max_val >= TEMPLATE_MATCH_THRESHOLD
    THEN [matched |-> TRUE, pos |-> "center", score |-> max_val]
    ELSE [matched |-> FALSE, pos |-> None, score |-> max_val]

\* Variant of TemplateMatch whose threshold test is strict.
TemplateMatch_StrictThreshold(frame, readable, max_val) ==
    IF ~readable
    THEN [matched |-> FALSE, pos |-> None, score |-> 0]
    ELSE IF frame.height < TemplateSize \/ frame.width < TemplateSize
    THEN [matched |-> FALSE, pos |-> None, score |-> 0]
    ELSE IF max_val > TEMPLATE_MATCH_THRESHOLD
    THEN [matched |-> TRUE, pos |-> "center", score |-> max_val]
    ELSE [matched |-> FALSE, pos |-> None, score |-> max_val]

\* screen.template_match.  readable: the template file exists and imread
\* decodes it; max_val: the best normalised correlation of the frame.
TemplateMatch(frame, readable, max_val) ==
    IF ~readable
    THEN [matched |-> FALSE, pos |-> None, score |-> 0]
    ELSE IF frame.height < TemplateSize \/ frame.width < TemplateSize
    THEN [matched |-> FALSE, pos |-> None, score |-> 0]
    ELSE IF max_val >= TEMPLATE_MATCH_THRESHOLD
    THEN [matched |-> TRUE, pos |-> "center", score |-> max_val]
    ELSE [matched |-> FALSE, pos |-> None, score |-> max_val]

\* template_match gets as far as cv2.matchTemplate: the template was read and
\* the frame is no smaller than it.  Only from there on can OpenCV raise; the
\* earlier exits are plain returns.
ReachesMatchTemplate(frame, readable) ==
    readable /\ ~(frame.height < TemplateSize \/ frame.width < TemplateSize)

\* Variant of BestUpdate that keeps the latest score instead of the best one.
BestUpdate_KeepsLast(best, score) == score

\* The best-score update of the three trackers: if score > best: best = score.
BestUpdate(best, score) == IF score > best THEN score ELSE best

\* Variant of PosIsNone with the test inverted.
PosIsNone_Inverted(pos) == pos # None

\* run(), S3_WAIT_MAINMENU: "if pos is None" sends the run to fail.
PosIsNone(pos) == pos = None

\* Variant of EnsureForeground that is content with an existing window.
EnsureForeground_IgnoresFocus(w, focusOk) == GetWindowHandle(w) # None

\* StateMachine.ensure_foreground: the window must exist and accept focus.
EnsureForeground(w, focusOk) ==
    IF GetWindowHandle(w) = None THEN FALSE ELSE focusOk

\* screen.is_mostly_black on a frame of the given size, mean grey level (in
\* hundredths) and share of non-zero pixels (in ten-thousandths).
IsMostlyBlack(size, mean, ratio) ==
    IF size = 0 THEN TRUE ELSE (mean <= 100 \/ ratio <= 100)

\* Variant of ReadyDecision that asks for both conditions.
ReadyDecision_Conjunctive(hwnd, foc, width, height, black) ==
    (hwnd /\ foc) /\ ((width > 0 /\ height > 0) /\ ~black)

\* The readiness test of wait_game_ready.
ReadyDecision(hwnd, foc, width, height, black) ==
    (hwnd /\ foc) \/ ((width > 0 /\ height > 0) /\ ~black)

\* Variant of LoginReturn that takes either marker for the main menu.
LoginReturn_AnyMarkerOk(marker) == "S_OK"

\* Variant of LoginReturn that hands the connecting marker to S2_CLICK_LOGIN.
LoginReturn_ClickLogin(marker) ==
    IF marker = "connecting" THEN "S2_CLICK_LOGIN" ELSE "S_OK"

\* The state wait_login_with_safe_clicks returns for the marker that matched.
LoginReturn(marker) ==
    IF marker = "connecting" THEN "S3_WAIT_MAINMENU" ELSE "S_OK"

\* The branch of the loop of run() that is executed for a state: where the
\* thread goes once state has been assigned.
Dispatch(st) ==
    CASE st = "S0_START" -> "s0_ensure"
      [] st = "S1_WAIT_LOGIN" -> "wl_head"
      [] st = "S2_CLICK_LOGIN" -> "s2_click"
      [] st = "S3_WAIT_MAINMENU" -> "wm_head"
      [] st = "S_OK" -> "ok_log"
      [] OTHER -> "done"

\* The cooldown test of wait_login_with_safe_clicks: TRUE when the click is skipped.
InCooldown(t, last) == t - last < CLICK_COOLDOWN

\* Variant of WithinDeadline that lets one more interval pass.
WithinDeadline_Loose(t, t0, timeout) == t - t0 <= timeout + CHECK_INTERVAL

\* The deadline test at the top of every poll loop.
WithinDeadline(t, t0, timeout) == t - t0 <= timeout

\* Grey statistics (mean, non-zero share) a captured frame can have.
FrameStats == {<<0, 0>>, <<100, 5000>>, <<5000, 100>>, <<5000, 5000>>}

(***************************************************************************)
(* Control helpers: where the thread goes next.                             *)
(***************************************************************************)

Reason(kind, a, b) == <<kind, a, b>>

\* Plain continuation at position p.
Step(p) == /\ pc' = p
           /\ UNCHANGED <<failState, failReason, inHandler, outcome>>

\* self.fail(st, reason) is called.
CallFail(st, reason) ==
    /\ pc' = "fail_log"
    /\ failState' = st
    /\ failReason' = reason
    /\ UNCHANGED <<inHandler, outcome>>

\* A collaborator raises an Exception.  Inside the try block of run() the
\* except clause calls self.fail(state, "异常: ..."); while the except clause
\* itself is executing nothing catches it and it leaves run().
Raise ==
    IF inHandler
    THEN /\ pc' = "done"
         /\ outcome' = "uncaught"
         /\ UNCHANGED <<failState, failReason, inHandler>>
    ELSE /\ pc' = "fail_log"
         /\ failState' = state
         /\ failReason' = Reason("exception", NoScore, NoScore)
         /\ inHandler' = TRUE
         /\ UNCHANGED outcome

HRaise(h, where) ==
    [h EXCEPT !.raises = @ + 1,
              !.pollRaise = IF where = "poll" /\ @ = None THEN state ELSE @]

\* No readiness poll has been decided yet.
NoPoll == [polled |-> FALSE, has_hwnd |-> FALSE, focused |-> FALSE, width |-> 0,
           height |-> 0, black |-> FALSE, ready |-> FALSE, at |-> 0]

\* The latest call of template_match, until the step after it: its inputs
\* (with the frame's correlation with the main-menu marker, whichever marker
\* the call was for) and what came out of it.
NoCall == [called |-> FALSE, marker |-> "none", readable |-> FALSE, fits |-> FALSE,
           max_val |-> NoScore, main |-> NoScore, raised |-> FALSE,
           matched |-> FALSE, pos |-> None, score |-> 0]

HCall(marker, frame, readable, max_val, r) ==
    [called |-> TRUE, marker |-> marker, readable |-> readable,
     fits |-> ~(frame.height < TemplateSize \/ frame.width < TemplateSize),
     max_val |-> max_val, main |-> frame.main, raised |-> FALSE,
     matched |-> r.matched, pos |-> r.pos, score |-> r.score]

\* The call ended with an exception instead of a result (no correlation came
\* out of cv2.matchTemplate).
HCallRaised(marker, frame, readable) ==
    [called |-> TRUE, marker |-> marker, readable |-> readable,
     fits |-> ~(frame.height < TemplateSize \/ frame.width < TemplateSize),
     max_val |-> NoScore, main |-> NoScore, raised |-> TRUE,
     matched |-> FALSE, pos |-> None, score |-> 0]

\* The ensure_foreground call at the end of S0_START, until the step after it:
\* whether the window existed, whether the focus request succeeded, and whether
\* the readiness wait before it had accepted on the frame alone.
NoFg == [called |-> FALSE, window |-> FALSE, focusOk |-> FALSE, frameOnly |-> FALSE]

\* The due click of the current WaitLogin iteration, until the step after it:
\* whether the window existed and took the focus, and, once the safe point has
\* been asked for, whether the window had a proper rectangle.
NoDue == [called |-> FALSE, window |-> FALSE, focusOk |-> FALSE,
          rectAsked |-> FALSE, rectOk |-> FALSE]

\* Records whether a window lookup or focus request went well.
HEnv(h, good) == [h EXCEPT !.envBad = @ \/ ~good]

hist0 ==
    [failCount |-> 0, trace |-> <<>>, entries |-> <<>>, killCount |-> 0,
     clickCount |-> 0, lastInject |-> NoTime, minGap |-> NoTime,
     okLogged |-> FALSE, notified |-> FALSE,
     raises |-> 0, pollRaise |-> None,
     maxC |-> NoScore, maxM |-> NoScore, maxB |-> NoScore,
     launchFailed |-> FALSE, envBad |-> FALSE,
     connHit |-> FALSE, mainHit |-> FALSE,
     rd |-> NoPoll, tm |-> NoCall, fg |-> NoFg, due |-> NoDue]

Init ==
    /\ pc = "s0_ensure"
    /\ state = "S0_START"
    /\ clock = ClockStart
    /\ start = ClockStart
    /\ last_click_ts = 0
    /\ now = NoTime
    /\ best_connecting = SENTINEL
    /\ best_mainmenu = SENTINEL
    /\ best_score = SENTINEL
    /\ img = NoFrame
    /\ has_hwnd = FALSE
    /\ focused = FALSE
    /\ inHandler = FALSE
    /\ failState = None
    /\ failReason = Reason("none", NoScore, NoScore)
    /\ outcome = "running"
    /\ hist = hist0

waitVars == <<start, last_click_ts, now, best_connecting, best_mainmenu, best_score,
              img, has_hwnd, focused>>

(***************************************************************************)
(* S0_START.                                                                *)
(***************************************************************************)

\* ensure_game_running: the process is already there, or a launch is tried.
S0_EnsureRunning ==
    /\ pc = "s0_ensure"
    /\ \E running \in BOOLEAN :
         /\ UNCHANGED hist
         /\ IF running
            THEN /\ Step("rd_head")
                 /\ start' = clock
            ELSE /\ Step("s0_launch")
                 /\ UNCHANGED start
    /\ UNCHANGED <<state, clock, last_click_ts, now, best_connecting, best_mainmenu,
                   best_score, img, has_hwnd, focused>>

\* Variant of S0_Launch in which run() goes on after a failed launch.
S0_Launch_IgnoresFailure ==
    /\ pc = "s0_launch"
    /\ \E launched \in BOOLEAN :
         IF launched
         THEN /\ Step("boot_head")
              /\ start' = clock
              /\ UNCHANGED hist
         ELSE /\ Step("rd_head")
              /\ start' = clock
              /\ hist' = [hist EXCEPT !.launchFailed = TRUE]
    /\ UNCHANGED <<state, clock, last_click_ts, now, best_connecting, best_mainmenu,
                   best_score, img, has_hwnd, focused>>

\* _launch_game_via_steam, then _wait_for_process is entered or the run fails.
S0_Launch ==
    /\ pc = "s0_launch"
    /\ \E launched \in BOOLEAN :
         IF launched
         THEN /\ Step("boot_head")
              /\ start' = clock
              /\ UNCHANGED hist
         ELSE /\ CallFail(state, Reason("launch", NoScore, NoScore))
              /\ hist' = [hist EXCEPT !.launchFailed = TRUE]
              /\ UNCHANGED start
    /\ UNCHANGED <<state, clock, last_click_ts, now, best_connecting, best_mainmenu,
                   best_score, img, has_hwnd, focused>>

\* _wait_for_process: one iteration of the loop.
Boot_Poll ==
    /\ pc = "boot_head"
    /\ WithinDeadline(clock, start, TIMEOUT_GAME_BOOT)
    /\ \E running \in BOOLEAN :
         IF running
         THEN /\ Step("rd_head")
              /\ start' = clock
              /\ UNCHANGED clock
         ELSE /\ Step("boot_head")
              /\ clock' = clock + PROCESS_POLL_SLEEP
              /\ UNCHANGED start
    /\ UNCHANGED <<state, last_click_ts, now, best_connecting, best_mainmenu,
                   best_score, img, has_hwnd, focused, hist>>

\* _wait_for_process: the boot deadline has passed.
Boot_Timeout ==
    /\ pc = "boot_head"
    /\ ~WithinDeadline(clock, start, TIMEOUT_GAME_BOOT)
    /\ CallFail(state, Reason("launch", NoScore, NoScore))
    /\ hist' = [hist EXCEPT !.launchFailed = TRUE]
    /\ UNCHANGED <<state, clock>>
    /\ UNCHANGED waitVars

\* wait_game_ready: window handle and focus request of one poll.
RD_Focus ==
    /\ pc = "rd_head"
    /\ WithinDeadline(clock, start, GAME_READY_TIMEOUT)
    /\ \E w \in WinStates, focusOk \in BOOLEAN :
         /\ has_hwnd' = (GetWindowHandle(w) # None)
         /\ focused' = IF GetWindowHandle(w) # None THEN focusOk ELSE FALSE
         /\ hist' = [HEnv(hist, w = "normal" /\ focusOk) EXCEPT !.rd = NoPoll]
    /\ Step("rd_capture")
    /\ UNCHANGED <<state, clock, start, last_click_ts, now, best_connecting,
                   best_mainmenu, best_score, img>>

\* wait_game_ready: capture, blackness test and readiness decision of one poll.
RD_Decide ==
    /\ pc = "rd_capture"
    /\ \/ /\ Raise
          /\ hist' = [HRaise(hist, "poll") EXCEPT !.rd = NoPoll]
          /\ UNCHANGED clock
       \/ \E w \in WinStates, rw \in RectSizes, rh \in RectSizes, st \in FrameStats :
            LET frame == CaptureWindow(w, rw, rh)
                black == IsMostlyBlack(frame.width * frame.height, st[1], st[2])
                ready == ReadyDecision(has_hwnd, focused, frame.width, frame.height, black)
            IN /\ hist' = [HEnv(hist, w = "normal") EXCEPT !.rd = [polled |-> TRUE,
                                               has_hwnd |-> has_hwnd, focused |-> focused,
                                               width |-> frame.width, height |-> frame.height,
                                               black |-> black, ready |-> ready,
                                               at |-> clock - start]]
               /\ IF ready
                  THEN /\ Step("s0_foreground")
                       /\ UNCHANGED clock
                  ELSE /\ Step("rd_head")
                       /\ clock' = clock + GAME_READY_CHECK_INTERVAL
    /\ has_hwnd' = FALSE
    /\ focused' = FALSE
    /\ UNCHANGED <<state, start, last_click_ts, now, best_connecting, best_mainmenu,
                   best_score, img>>

\* wait_game_ready: the readiness deadline has passed.
RD_Timeout ==
    /\ pc = "rd_head"
    /\ ~WithinDeadline(clock, start, GAME_READY_TIMEOUT)
    /\ CallFail(state, Reason("ready", NoScore, NoScore))
    /\ hist' = [hist EXCEPT !.rd = NoPoll]
    /\ UNCHANGED <<state, clock>>
    /\ UNCHANGED waitVars

\* run(): ensure_foreground at the end of S0_START, then S1_WAIT_LOGIN
\* (wait_login_with_safe_clicks is entered) or the run fails.
S0_Foreground ==
    /\ pc = "s0_foreground"
    /\ \E w \in WinStates, focusOk \in BOOLEAN :
         LET call == [called |-> TRUE, window |-> GetWindowHandle(w) # None,
                      focusOk |-> (GetWindowHandle(w) # None /\ focusOk),
                      frameOnly |-> (hist.rd.ready
                                     /\ ~(hist.rd.has_hwnd /\ hist.rd.focused))]
         IN IF EnsureForeground(w, focusOk)
            THEN /\ Step("wl_head")
                 /\ state' = "S1_WAIT_LOGIN"
                 /\ start' = clock
                 /\ best_mainmenu' = SENTINEL
                 /\ best_connecting' = SENTINEL
                 /\ hist' = [HEnv(hist, w = "normal") EXCEPT !.rd = NoPoll, !.fg = call]
            ELSE /\ CallFail(state, Reason("foreground", NoScore, NoScore))
                 /\ hist' = [HEnv(hist, FALSE) EXCEPT !.rd = NoPoll, !.fg = call]
                 /\ UNCHANGED <<state, start, best_mainmenu, best_connecting>>
    /\ UNCHANGED <<clock, last_click_ts, now, best_score, img, has_hwnd, focused>>

(***************************************************************************)
(* S1_WAIT_LOGIN: wait_login_with_safe_clicks.                              *)
(***************************************************************************)

\* Top of the loop within the deadline: capture_window.
WL_Capture ==
    /\ pc = "wl_head"
    /\ WithinDeadline(clock, start, TIMEOUT_S1_WAIT_LOGIN)
    /\ \/ /\ Raise
          /\ hist' = [HRaise(hist, "poll") EXCEPT !.fg = NoFg, !.due = NoDue]
          /\ UNCHANGED <<clock, img>>
       \/ \E w \in WinStates, rw \in RectSizes, rh \in RectSizes, d \in Delays,
             c \in Scores, m \in Scores :
            /\ img' = Frame(CaptureWindow(w, rw, rh), c, m)
            /\ clock' = clock + d
            /\ hist' = [HEnv(hist, w = "normal") EXCEPT !.fg = NoFg, !.due = NoDue]
            /\ Step("wl_conn")
    /\ UNCHANGED <<state, start, last_click_ts, now, best_connecting, best_mainmenu,
                   best_score, has_hwnd, focused>>

\* Top of the loop past the deadline: self.fail with both best scores.
WL_Timeout ==
    /\ pc = "wl_head"
    /\ ~WithinDeadline(clock, start, TIMEOUT_S1_WAIT_LOGIN)
    /\ CallFail(state, Reason("loginTimeout", best_mainmenu, best_connecting))
    /\ hist' = [hist EXCEPT !.fg = NoFg, !.due = NoDue]
    /\ UNCHANGED <<state, clock>>
    /\ UNCHANGED waitVars

\* Connecting marker: match, tracker update, and return S3_WAIT_MAINMENU on a
\* hit (run() then enters wait_for_marker for the main-menu marker).
WL_MatchConnecting ==
    /\ pc = "wl_conn"
    /\ \E readable \in BOOLEAN :
         \/ /\ ReachesMatchTemplate(img, readable)
            /\ Raise
            /\ hist' = [HRaise(hist, "poll") EXCEPT
                            !.tm = HCallRaised("connecting", img, readable)]
            /\ img' = NoFrame
            /\ UNCHANGED <<state, start, best_connecting, best_score>>
         \/ LET r == TemplateMatch(img, readable, img.conn)
            IN /\ best_connecting' = BestUpdate(best_connecting, r.score)
               /\ IF r.matched
                  THEN /\ Step(Dispatch(LoginReturn("connecting")))
                       /\ state' = LoginReturn("connecting")
                       /\ start' = clock
                       /\ best_score' = SENTINEL
                       /\ img' = NoFrame
                       /\ hist' = [hist EXCEPT !.maxC = Max({@, r.score}),
                                               !.connHit = TRUE,
                                               !.tm = HCall("connecting", img, readable,
                                                            img.conn, r)]
                  ELSE /\ Step("wl_main")
                       /\ hist' = [hist EXCEPT !.maxC = Max({@, r.score}),
                                               !.tm = HCall("connecting", img, readable,
                                                            img.conn, r)]
                       /\ UNCHANGED <<state, start, best_score, img>>
    /\ UNCHANGED <<clock, last_click_ts, now, best_mainmenu, has_hwnd, focused>>

\* Main-menu marker: match, tracker update, and return S_OK on a hit.
WL_MatchMain ==
    /\ pc = "wl_main"
    /\ \E readable \in BOOLEAN :
         \/ /\ ReachesMatchTemplate(img, readable)
            /\ Raise
            /\ hist' = [HRaise(hist, "poll") EXCEPT
                            !.tm = HCallRaised("mainmenu", img, readable)]
            /\ img' = NoFrame
            /\ UNCHANGED <<state, best_mainmenu>>
         \/ LET r == TemplateMatch(img, readable, img.main)
            IN /\ best_mainmenu' = BestUpdate(best_mainmenu, r.score)
               /\ img' = NoFrame
               /\ IF r.matched
                  THEN /\ Step(Dispatch(LoginReturn("mainmenu")))
                       /\ state' = LoginReturn("mainmenu")
                       /\ hist' = [hist EXCEPT !.maxM = Max({@, r.score}),
                                               !.mainHit = TRUE,
                                               !.tm = HCall("mainmenu", img, readable,
                                                            img.main, r)]
                  ELSE /\ Step("wl_cool")
                       /\ hist' = [hist EXCEPT !.maxM = Max({@, r.score}),
                                               !.tm = HCall("mainmenu", img, readable,
                                                            img.main, r)]
                       /\ UNCHANGED state
    /\ UNCHANGED <<clock, start, last_click_ts, now, best_connecting, best_score,
                   has_hwnd, focused>>

\* Variant of WL_Cooldown whose skipped click loops without sleeping.
WL_Cooldown_NoSleep ==
    /\ pc = "wl_cool"
    /\ IF InCooldown(clock, last_click_ts)
       THEN /\ Step("wl_head")
            /\ now' = NoTime
            /\ UNCHANGED clock
       ELSE /\ Step("wl_focus")
            /\ now' = clock
            /\ UNCHANGED clock
    /\ hist' = [hist EXCEPT !.tm = NoCall]
    /\ UNCHANGED <<state, start, last_click_ts, best_connecting, best_mainmenu,
                   best_score, img, has_hwnd, focused>>

\* now = time.time() and the cooldown test; a skipped click sleeps and loops.
\* The local now is not read again before its next assignment: the model
\* forgets it (NoTime) at the end of the iteration.
WL_Cooldown ==
    /\ pc = "wl_cool"
    /\ IF InCooldown(clock, last_click_ts)
       THEN /\ Step("wl_head")
            /\ clock' = clock + CHECK_INTERVAL
            /\ now' = NoTime
       ELSE /\ Step("wl_focus")
            /\ now' = clock
            /\ UNCHANGED clock
    /\ hist' = [hist EXCEPT !.tm = NoCall]
    /\ UNCHANGED <<state, start, last_click_ts, best_connecting, best_mainmenu,
                   best_score, img, has_hwnd, focused>>

\* The click is due: ensure_foreground, which takes some time.
WL_Focus ==
    /\ pc = "wl_focus"
    /\ \E w \in WinStates, focusOk \in BOOLEAN, d \in Delays :
         /\ clock' = clock + d
         /\ hist' = [HEnv(hist, w = "normal" /\ focusOk) EXCEPT
                         !.due = [called |-> TRUE, window |-> w # "absent",
                                  focusOk |-> (w # "absent" /\ focusOk),
                                  rectAsked |-> FALSE, rectOk |-> FALSE]]
         /\ IF EnsureForeground(w, focusOk)
            THEN Step("wl_point")
            ELSE CallFail(state, Reason("safeClickFocus", NoScore, NoScore))
    /\ UNCHANGED <<state, start, last_click_ts, now, best_connecting, best_mainmenu,
                   best_score, img, has_hwnd, focused>>

\* window_safe_click_point, click_point, last_click_ts = now, sleep.
WL_Click ==
    /\ pc = "wl_point"
    /\ \E w \in WinStates, rw \in RectSizes, rh \in RectSizes :
         IF GetWindowRect(w, rw, rh) = NoRect
         THEN /\ CallFail(state, Reason("safeClickPoint", NoScore, NoScore))
              /\ hist' = [HEnv(hist, FALSE) EXCEPT !.due.rectAsked = TRUE,
                                                   !.due.rectOk = (w = "normal")]
              /\ UNCHANGED <<clock, last_click_ts, now>>
         ELSE \/ /\ Raise
                 /\ hist' = [HRaise(hist, "poll") EXCEPT !.due = NoDue]
                 /\ UNCHANGED <<clock, last_click_ts, now>>
              \/ /\ Step("wl_head")
                 /\ now' = NoTime
                 /\ last_click_ts' = now
                 /\ clock' = clock + CHECK_INTERVAL
                 /\ hist' = [hist EXCEPT
                       !.due.rectAsked = TRUE,
                       !.due.rectOk = (w = "normal"),
                       !.clickCount = @ + 1,
                       !.lastInject = clock,
                       !.minGap = IF hist.lastInject = NoTime THEN @
                                  ELSE IF @ = NoTime THEN clock - hist.lastInject
                                  ELSE IF clock - hist.lastInject < @
                                       THEN clock - hist.lastInject ELSE @]
    /\ UNCHANGED <<state, start, best_connecting, best_mainmenu, best_score,
                   img, has_hwnd, focused>>

(***************************************************************************)
(* S3_WAIT_MAINMENU: wait_for_marker(MAINMENU_MARKER).                      *)
(***************************************************************************)

WM_Capture ==
    /\ pc = "wm_head"
    /\ WithinDeadline(clock, start, TIMEOUT_S3_WAIT_MAINMENU)
    /\ \/ /\ Raise
          /\ hist' = [HRaise(hist, "poll") EXCEPT !.tm = NoCall]
          /\ UNCHANGED <<clock, img>>
       \/ \E w \in WinStates, rw \in RectSizes, rh \in RectSizes, d \in Delays,
             m \in Scores :
            /\ img' = Frame(CaptureWindow(w, rw, rh), NoScore, m)
            /\ clock' = clock + d
            /\ hist' = [HEnv(hist, w = "normal") EXCEPT !.tm = NoCall]
            /\ Step("wm_match")
    /\ UNCHANGED <<state, start, last_click_ts, now, best_connecting, best_mainmenu,
                   best_score, has_hwnd, focused>>

\* wait_for_marker returns (None, best_score); run() fails with the best score.
WM_Timeout ==
    /\ pc = "wm_head"
    /\ ~WithinDeadline(clock, start, TIMEOUT_S3_WAIT_MAINMENU)
    /\ IF PosIsNone(None)
       THEN /\ CallFail(state, Reason("mainmenuTimeout", best_score, NoScore))
            /\ UNCHANGED state
       ELSE /\ Step("ok_log")
            /\ state' = "S_OK"
    /\ hist' = [hist EXCEPT !.tm = NoCall]
    /\ UNCHANGED clock
    /\ UNCHANGED waitVars

\* Match, tracker update; a hit returns the position and run() moves to S_OK.
\* An exception leaves the wait and its frame behind.
WM_Match ==
    /\ pc = "wm_match"
    /\ \E readable \in BOOLEAN :
         \/ /\ ReachesMatchTemplate(img, readable)
            /\ Raise
            /\ hist' = [HRaise(hist, "poll") EXCEPT
                            !.tm = HCallRaised("mainmenu", img, readable)]
            /\ img' = NoFrame
            /\ UNCHANGED <<state, clock, best_score>>
         \/ LET r == TemplateMatch(img, readable, img.main)
            IN /\ best_score' = BestUpdate(best_score, r.score)
               /\ img' = NoFrame
               /\ IF r.matched
                  THEN /\ IF PosIsNone(r.pos)
                          THEN /\ CallFail(state, Reason("mainmenuTimeout",
                                                         BestUpdate(best_score, r.score), NoScore))
                               /\ UNCHANGED state
                          ELSE /\ Step("ok_log")
                               /\ state' = "S_OK"
                       /\ hist' = [hist EXCEPT !.maxB = Max({@, r.score}),
                                               !.mainHit = TRUE,
                                               !.tm = HCall("mainmenu", img, readable,
                                                            img.main, r)]
                       /\ UNCHANGED clock
                  ELSE /\ Step("wm_head")
                       /\ clock' = clock + CHECK_INTERVAL
                       /\ hist' = [hist EXCEPT !.maxB = Max({@, r.score}),
                                               !.tm = HCall("mainmenu", img, readable,
                                                            img.main, r)]
                       /\ UNCHANGED state
    /\ UNCHANGED <<start, last_click_ts, now, best_connecting, best_mainmenu,
                   has_hwnd, focused>>

(***************************************************************************)
(* S_OK.                                                                    *)
(***************************************************************************)

\* logger.info("流程完成") and print.
OK_Log ==
    /\ pc = "ok_log"
    /\ Step("ok_alert")
    /\ hist' = [hist EXCEPT !.okLogged = TRUE, !.tm = NoCall]
    /\ UNCHANGED <<state, clock>>
    /\ UNCHANGED waitVars

\* pyautogui.alert, then run() returns.
OK_Alert ==
    /\ pc = "ok_alert"
    /\ \/ /\ Raise
          /\ hist' = HRaise(hist, "ok")
       \/ /\ pc' = "done"
          /\ outcome' = "returned"
          /\ hist' = [hist EXCEPT !.notified = TRUE]
          /\ UNCHANGED <<failState, failReason, inHandler>>
    /\ UNCHANGED <<state, clock>>
    /\ UNCHANGED waitVars

(***************************************************************************)
(* fail().                                                                  *)
(***************************************************************************)

\* logger.error with state and reason.  fail() does not return to the wait
\* that called it or raised: the frame and the time of the cooldown test, locals
\* of that wait, are out of reach from here on.
Fail_Log ==
    /\ pc = "fail_log"
    /\ Step("fail_capture")
    /\ hist' = [hist EXCEPT !.failCount = @ + 1,
                            !.trace = Append(@, "log"),
                            !.entries = Append(@, <<failState, failReason>>),
                            !.tm = NoCall, !.fg = NoFg, !.due = NoDue]
    /\ img' = NoFrame
    /\ now' = NoTime
    /\ UNCHANGED <<state, clock, start, last_click_ts, best_connecting, best_mainmenu,
                   best_score, has_hwnd, focused>>

\* screen.capture_window for the diagnostic screenshot.
Fail_Capture ==
    /\ pc = "fail_capture"
    /\ \/ /\ Raise
          /\ hist' = HRaise(hist, "fail")
       \/ /\ Step("fail_save")
          /\ hist' = [hist EXCEPT !.trace = Append(@, "capture")]
    /\ UNCHANGED <<state, clock>>
    /\ UNCHANGED waitVars

\* screen.save_screenshot and the log of its path.
Fail_Save ==
    /\ pc = "fail_save"
    /\ \/ /\ Raise
          /\ hist' = HRaise(hist, "fail")
       \/ /\ Step("fail_kill")
          /\ hist' = [hist EXCEPT !.trace = Append(@, "save")]
    /\ UNCHANGED <<state, clock>>
    /\ UNCHANGED waitVars

\* kill_game: terminate every process of the game (kill defaults to True).
Fail_Kill ==
    /\ pc = "fail_kill"
    /\ Step("fail_exit")
    /\ hist' = [hist EXCEPT !.killCount = @ + 1,
                            !.trace = Append(@, "kill")]
    /\ UNCHANGED <<state, clock>>
    /\ UNCHANGED waitVars

\* sys.exit(1): SystemExit is no Exception, the except clause lets it pass.
Fail_Exit ==
    /\ pc = "fail_exit"
    /\ pc' = "done"
    /\ outcome' = "exit1"
    /\ hist' = [hist EXCEPT !.trace = Append(@, "exit")]
    /\ UNCHANGED <<failState, failReason, inHandler>>
    /\ UNCHANGED <<state, clock>>
    /\ UNCHANGED waitVars

\* run() has a branch for S2_CLICK_LOGIN (main.py:55-77, with
\* wait_for_transition), at position "s2_click", but no statement assigns
\* State.S2_CLICK_LOGIN to state: the branch has no step in any run and
\* therefore no action here.
Next ==
    \/ S0_EnsureRunning
    \/ S0_Launch
    \/ Boot_Poll
    \/ Boot_Timeout
    \/ RD_Focus
    \/ RD_Decide
    \/ RD_Timeout
    \/ S0_Foreground
    \/ WL_Capture
    \/ WL_Timeout
    \/ WL_MatchConnecting
    \/ WL_MatchMain
    \/ WL_Cooldown
    \/ WL_Focus
    \/ WL_Click
    \/ WM_Capture
    \/ WM_Timeout
    \/ WM_Match
    \/ OK_Log
    \/ OK_Alert
    \/ Fail_Log
    \/ Fail_Capture
    \/ Fail_Save
    \/ Fail_Kill
    \/ Fail_Exit

Spec == Init /\ [][Next]_vars

\* run() is one thread that is never suspended for good: wall-clock time goes
\* on and every call comes back (with a value or an exception), so the thread
\* takes its next step as long as it has one.
SpecFair == Spec /\ WF_vars(Next)

(***************************************************************************)
(* The safe click of wait_login_with_safe_clicks with the coordinates of    *)
(* the window: window_safe_click_point and click_point on every window of   *)
(* a bounded family, one call per behaviour.  hist holds the window the     *)
(* call sees and what the call produced.                                    *)
(***************************************************************************)

\* Largest width and height of a window rectangle, in pixels.
MaxWidth == 90
MaxHeight == 20
\* Screen coordinates of the window's corner (other monitors lie at negative ones).
Lefts == {-3, 0, 7}
Tops == {-2, 0, 5}

NoRectAt == [left |-> 0, top |-> 0, width |-> 0, height |-> 0]
NoPoint == [some |-> FALSE, x |-> 0, y |-> 0]

\* The largest power of two that is at most n, for n >= 1.
RECURSIVE Pow2Floor(_)
Pow2Floor(n) == IF n < 2 THEN 1 ELSE 2 * Pow2Floor(n \div 2)

\* int(width * 0.70) in Python.  The float 0.70 is the double nearest to 7/10,
\* which is 7/10 - 0.4 * 2^-53; the product is rounded to the nearest double and
\* int() truncates it.  When 7 * width / 10 is not whole the result is its
\* integer part.  When it is a whole number N, the exact product lies
\* 0.4 * width * 2^-53 below N, and it is rounded back to N only if that is at
\* most half the spacing 2^-52 * Pow2Floor(N) of the doubles below N, that is
\* if 2 * width <= 5 * Pow2Floor(N); otherwise the product is the double below
\* N and int() gives N - 1 (the first such width is 90).
IntOfWidthTimesRx(width) ==
    LET N == (7 * width) \div 10
    IN IF (7 * width) % 10 = 0 /\ width > 0 /\ 2 * width > 5 * Pow2Floor(N)
       THEN N - 1
       ELSE N

\* int(height * 0.55) in Python.  The float 0.55 is the double nearest to
\* 11/20, which lies above 11/20: the product is never below the exact one and
\* int() gives the integer part of 11 * height / 20.
IntOfHeightTimesRy(height) == (11 * height) \div 20

\* screen.get_window_rect with coordinates: None without a window or when the
\* rectangle has no positive width and height.
GetWindowRectAt(w, left, top, right, bottom) ==
    IF GetWindowHandle(w) = None THEN NoRectAt
    ELSE IF right - left <= 0 \/ bottom - top <= 0 THEN NoRectAt
    ELSE [left |-> left, top |-> top, width |-> right - left, height |-> bottom - top]

\* Variant of WindowSafeClickPoint that returns the offset as the point.
WindowSafeClickPoint_OffsetOnly(w, left, top, right, bottom) ==
    LET rect == GetWindowRectAt(w, left, top, right, bottom)
    IN IF rect = NoRectAt THEN NoPoint
       ELSE [some |-> TRUE, x |-> IntOfWidthTimesRx(rect.width),
             y |-> IntOfHeightTimesRy(rect.height)]

\* screen.window_safe_click_point with the defaults rx = 0.70, ry = 0.55.
WindowSafeClickPoint(w, left, top, right, bottom) ==
    LET rect == GetWindowRectAt(w, left, top, right, bottom)
    IN IF rect = NoRectAt THEN NoPoint
       ELSE [some |-> TRUE, x |-> rect.left + IntOfWidthTimesRx(rect.width),
             y |-> rect.top + IntOfHeightTimesRy(rect.height)]

\* The thread is about to compute the safe point in S1_WAIT_LOGIN, on any
\* window of the family.
InitClickPoint ==
    /\ pc = "cp_point"
    /\ state = "S1_WAIT_LOGIN"
    /\ clock = ClockStart
    /\ start = ClockStart
    /\ last_click_ts = 0
    /\ now = ClockStart
    /\ best_connecting = SENTINEL
    /\ best_mainmenu = SENTINEL
    /\ best_score = SENTINEL
    /\ img = NoFrame
    /\ has_hwnd = FALSE
    /\ focused = FALSE
    /\ inHandler = FALSE
    /\ failState = None
    /\ failReason = Reason("none", NoScore, NoScore)
    /\ outcome = "running"
    /\ \E w \in {"absent", "normal"}, left \in Lefts, top \in Tops,
          width \in 0 .. MaxWidth, height \in 0 .. MaxHeight :
         hist = [w |-> w, left |-> left, top |-> top, right |-> left + width,
                 bottom |-> top + height, point |-> NoPoint, clicked |-> NoPoint]

\* point = screen.window_safe_click_point(config.GAME_WINDOW_TITLE)
CP_Point ==
    /\ pc = "cp_point"
    /\ hist' = [hist EXCEPT !.point = WindowSafeClickPoint(hist.w, hist.left, hist.top,
                                                           hist.right, hist.bottom)]
    /\ Step("cp_click")
    /\ UNCHANGED <<state, clock>>
    /\ UNCHANGED waitVars

\* if point is None: self.fail(...), return None
CP_NoPoint ==
    /\ pc = "cp_click"
    /\ hist.point = NoPoint
    /\ CallFail(state, Reason("safeClickPoint", NoScore, NoScore))
    /\ UNCHANGED <<state, clock, hist>>
    /\ UNCHANGED waitVars

\* screen.click_point(point); self.last_click_ts = now
CP_Click ==
    /\ pc = "cp_click"
    /\ hist.point # NoPoint
    /\ hist' = [hist EXCEPT !.clicked = hist.point]
    /\ last_click_ts' = now
    /\ Step("cp_done")
    /\ UNCHANGED <<state, clock, start, now, best_connecting, best_mainmenu,
                   best_score, img, has_hwnd, focused>>

NextClickPoint ==
    \/ CP_Point
    \/ CP_NoPoint
    \/ CP_Click

SpecClickPoint == InitClickPoint /\ [][NextClickPoint]_vars

(***************************************************************************)
(* Properties.                                                              *)
(***************************************************************************)

\* The value a tracker must hold after the scores whose maximum is m.
TrackerValue(m) == IF m = NoScore THEN SENTINEL ELSE m

FailPositions == {"fail_log", "fail_capture", "fail_save", "fail_kill", "fail_exit"}
OkPositions == {"ok_log", "ok_alert"}

\* C1: any two consecutive injected clicks are at least CLICK_COOLDOWN apart,
\* whatever the durations of the steps between the cooldown test and the click.
C1_ClickCooldown ==
    hist.minGap # NoTime => hist.minGap >= CLICK_COOLDOWN

\* C2: a run reaches one terminal state once: fail() is entered at most once,
\* and never after the success of S_OK has been logged.
C2_OneTerminalOnce ==
    /\ hist.failCount <= 1
    /\ hist.okLogged => hist.failCount = 0

\* C3: the states visited form a path of the state table: state changes only
\* along the forward edges, Fail is entered only from a non-terminal state and
\* only once, and nothing changes state after Ok or Fail.
StateEdges ==
    {<<"S0_START", "S1_WAIT_LOGIN">>, <<"S1_WAIT_LOGIN", "S2_CLICK_LOGIN">>,
     <<"S1_WAIT_LOGIN", "S3_WAIT_MAINMENU">>, <<"S1_WAIT_LOGIN", "S_OK">>,
     <<"S2_CLICK_LOGIN", "S3_WAIT_MAINMENU">>, <<"S3_WAIT_MAINMENU", "S_OK">>}

C3_StatePath ==
    [][/\ state' # state => (<<state, state'>> \in StateEdges /\ hist.failCount = 0)
       /\ hist'.failCount > hist.failCount =>
              (failState \notin {"S_OK", "S_FAIL"} /\ hist.failCount = 0)]_vars

\* C4: a run that entered fail() ends having logged, captured, requested the
\* termination of the game and exited with status 1, in that order.
StepsInOrder(t) ==
    \E i, j, k, l \in 1 .. Len(t) :
        /\ i < j /\ j < k /\ k < l
        /\ t[i] = "log" /\ t[j] = "capture" /\ t[k] = "kill" /\ t[l] = "exit"
        /\ \A m \in 1 .. Len(t) : t[m] = "kill" => \E c \in 1 .. (m - 1) : t[c] = "capture"

C4_FailureFunnel ==
    (pc = "done" /\ hist.failCount >= 1) =>
        (outcome = "exit1" /\ hist.killCount >= 1 /\ StepsInOrder(hist.trace))

\* C5: an exception raised during a poll is caught, fail() is entered with the
\* state of the poll and the exception as reason, and the run ends with exit
\* status 1 after the capture and the termination request; it never leaves run().
C5_PollExceptionFunnel ==
    hist.pollRaise # None =>
        /\ outcome # "uncaught"
        /\ Len(hist.entries) >= 1 =>
               hist.entries[1] = <<hist.pollRaise, Reason("exception", NoScore, NoScore)>>
        /\ pc = "done" =>
               (outcome = "exit1" /\ hist.killCount >= 1 /\ StepsInOrder(hist.trace))

\* C6: each best-score tracker never decreases during its wait and always
\* equals the maximum of the scores the matcher returned for its marker, in
\* particular when the wait ends by match or by timeout.
TrackersAreMax ==
    /\ best_connecting = TrackerValue(hist.maxC)
    /\ best_mainmenu = TrackerValue(hist.maxM)
    /\ best_score = TrackerValue(hist.maxB)

C6_BestScoreTracker ==
    /\ []TrackersAreMax
    /\ [][/\ best_connecting' >= best_connecting
          /\ best_mainmenu' >= best_mainmenu
          /\ best_score' >= best_score]_vars

C6_Witness ==
    /\ pc = "fail_log"
    /\ failReason[1] = "loginTimeout"
    /\ best_connecting = 84
    /\ best_mainmenu = 0

\* C7: a wait that ends by timeout calls fail() with a reason that reports the
\* maximum score observed in that wait, which is below the match threshold.
C7_TimeoutReportsBest ==
    [][/\ (pc = "wl_head" /\ ~WithinDeadline(clock, start, TIMEOUT_S1_WAIT_LOGIN)) =>
             /\ pc' = "fail_log"
             /\ failState' = "S1_WAIT_LOGIN"
             /\ failReason' = Reason("loginTimeout", hist.maxM, hist.maxC)
             /\ hist.maxM # NoScore /\ hist.maxM < TEMPLATE_MATCH_THRESHOLD
             /\ hist.maxC # NoScore /\ hist.maxC < TEMPLATE_MATCH_THRESHOLD
       /\ (pc = "wm_head" /\ ~WithinDeadline(clock, start, TIMEOUT_S3_WAIT_MAINMENU)) =>
             /\ pc' = "fail_log"
             /\ failState' = "S3_WAIT_MAINMENU"
             /\ failReason' = Reason("mainmenuTimeout", hist.maxB, NoScore)
             /\ hist.maxB # NoScore /\ hist.maxB < TEMPLATE_MATCH_THRESHOLD]_vars

C7_Witness ==
    /\ pc = "fail_capture"
    /\ failState = "S3_WAIT_MAINMENU"
    /\ failReason = Reason("mainmenuTimeout", 84, NoScore)
    /\ hist.entries = <<<<failState, failReason>>>>

\* C8: when no collaborator raises, the window is there and focusable at every
\* lookup, the connecting marker matched during WaitLogin and the main-menu
\* marker matched during WaitMainMenu, the run is on its way to Ok: fail() is
\* never entered, no termination is requested and run() returns normally.
C8_HappyPath ==
    (hist.connHit /\ hist.mainHit /\ hist.raises = 0 /\ ~hist.envBad) =>
        /\ hist.failCount = 0
        /\ hist.killCount = 0
        /\ pc \in OkPositions \cup {"done"}
        /\ pc = "done" => outcome = "returned"

C8_Witness ==
    /\ hist.connHit /\ hist.mainHit /\ hist.raises = 0 /\ ~hist.envBad
    /\ hist.clickCount >= 1
    /\ pc = "done"
    /\ outcome = "returned"

\* C9: when the process is absent and the launch fails or the process does not
\* appear before the boot deadline, fail() is entered from S0_START with the
\* launch-failure reason, WaitLogin is never entered, no click is injected and
\* termination is requested at most once.
C9_LaunchFailure ==
    hist.launchFailed =>
        /\ state = "S0_START"
        /\ pc \in FailPositions \cup {"done"}
        /\ hist.clickCount = 0
        /\ hist.killCount <= 1
        /\ failState = "S0_START"
        /\ (pc = "fail_log" /\ hist.failCount = 0) =>
               failReason = Reason("launch", NoScore, NoScore)
        /\ Len(hist.entries) >= 1 =>
               hist.entries[1] = <<"S0_START", Reason("launch", NoScore, NoScore)>>
        /\ pc = "done" => outcome # "returned"

C9_Witness ==
    /\ hist.launchFailed
    /\ pc = "done"
    /\ outcome = "exit1"
    /\ hist.killCount = 1
    /\ clock > ClockStart

\* C10: a readiness poll declares readiness exactly when (handle and focus) or
\* (frame of positive size and not mostly black); a poll that does not declare
\* it leads back to the top of the loop, not to a failure.
C10_ReadinessPolicy ==
    hist.rd.polled =>
        /\ hist.rd.ready <=>
               \/ (hist.rd.has_hwnd /\ hist.rd.focused)
               \/ (hist.rd.width > 0 /\ hist.rd.height > 0 /\ ~hist.rd.black)
        /\ hist.rd.ready => pc = "s0_foreground"
        /\ ~hist.rd.ready =>
               /\ pc = "rd_head"
               /\ hist.failCount = 0
               /\ hist.rd.at <= GAME_READY_TIMEOUT
               /\ clock - start = hist.rd.at + GAME_READY_CHECK_INTERVAL

C10_Witness ==
    /\ hist.rd.polled
    /\ hist.rd.has_hwnd /\ ~hist.rd.focused
    /\ ~hist.rd.black /\ hist.rd.width > 0 /\ hist.rd.height > 0
    /\ hist.rd.ready
    /\ pc = "s0_foreground"

\* C11: a call of template_match that reaches the correlation (template read,
\* frame no smaller than the template) and returns reports a match exactly when
\* the best correlation is at least TEMPLATE_MATCH_THRESHOLD, the threshold
\* itself included, and returns that correlation as the score in both cases.
C11_ThresholdInclusive ==
    (hist.tm.called /\ hist.tm.readable /\ hist.tm.fits /\ ~hist.tm.raised) =>
        /\ hist.tm.matched <=> hist.tm.max_val >= TEMPLATE_MATCH_THRESHOLD
        /\ hist.tm.max_val = TEMPLATE_MATCH_THRESHOLD => hist.tm.matched
        /\ hist.tm.score = hist.tm.max_val
        /\ hist.tm.matched <=> hist.tm.pos # None

C11_Witness ==
    /\ hist.tm.called /\ hist.tm.readable /\ hist.tm.fits
    /\ hist.tm.max_val = TEMPLATE_MATCH_THRESHOLD
    /\ hist.tm.matched
    /\ hist.tm.score = TEMPLATE_MATCH_THRESHOLD
    /\ best_connecting = TEMPLATE_MATCH_THRESHOLD - 1
    /\ pc = "ok_log"

\* C12: a call of template_match whose template is missing or unreadable, or
\* whose frame is smaller than the template in height or width, does not raise
\* and returns (False, None, 0); the poll goes on as after any other miss, so
\* the marker is not matched and the wait is not ended by that call.
C12_DegenerateCall ==
    (hist.tm.called /\ (~hist.tm.readable \/ ~hist.tm.fits)) =>
        /\ ~hist.tm.raised
        /\ ~hist.tm.matched /\ hist.tm.pos = None /\ hist.tm.score = 0
        /\ hist.tm.marker = "connecting" => (pc = "wl_main" /\ state = "S1_WAIT_LOGIN")
        /\ (hist.tm.marker = "mainmenu" /\ state = "S1_WAIT_LOGIN") => pc = "wl_cool"
        /\ (hist.tm.marker = "mainmenu" /\ state = "S3_WAIT_MAINMENU") => pc = "wm_head"
        /\ state \in {"S1_WAIT_LOGIN", "S3_WAIT_MAINMENU"}

C12_Witness ==
    /\ hist.tm.called /\ hist.tm.readable /\ ~hist.tm.fits
    /\ hist.tm.max_val = TEMPLATE_MATCH_THRESHOLD
    /\ hist.tm.score = 0
    /\ state = "S3_WAIT_MAINMENU"
    /\ best_score = 0
    /\ pc = "wm_head"

\* C13: every run terminates.  With time advancing and every call coming back,
\* run() ends after finitely many steps, whatever the matcher answers; when no
\* collaborator raises it ends in Ok (run() returns) or in Fail (exit status 1).
C13_Terminates ==
    <>(pc = "done" /\ (hist.raises = 0 => outcome \in {"returned", "exit1"}))

\* A run that went through the boot wait, the readiness wait, WaitLogin with a
\* click and WaitMainMenu up to its deadline, and has ended.
C13_Witness ==
    /\ pc = "done"
    /\ hist.raises = 0
    /\ outcome = "exit1"
    /\ hist.clickCount >= 1
    /\ failReason[1] = "mainmenuTimeout"
    /\ clock > ClockStart + TIMEOUT_S3_WAIT_MAINMENU + CLICK_COOLDOWN

\* C14: a click is injected only in a WaitLogin iteration in which neither
\* marker matched and in which, at the cooldown test, at least CLICK_COOLDOWN
\* had elapsed since the last injected click; and no click is injected once
\* either marker has matched.
C14_ClickGate ==
    [][hist'.clickCount > hist.clickCount =>
          /\ pc = "wl_point" /\ state = "S1_WAIT_LOGIN"
          /\ ~hist.connHit /\ ~hist.mainHit
          /\ hist.lastInject # NoTime => now - hist.lastInject >= CLICK_COOLDOWN]_vars

\* C15: WaitLogin is entered only by the ensure_foreground call at the end of
\* S0_START, and only when the window existed and its focus request succeeded;
\* when the window is absent or the focus request fails the run goes to fail()
\* from S0_START and the state never changes afterwards, also when the readiness
\* wait had accepted on the frame alone.
C15_Foreground ==
    hist.fg.called =>
        /\ (hist.fg.window /\ hist.fg.focusOk) =>
               (pc = "wl_head" /\ state = "S1_WAIT_LOGIN" /\ hist.failCount = 0)
        /\ ~(hist.fg.window /\ hist.fg.focusOk) =>
               /\ pc = "fail_log" /\ state = "S0_START"
               /\ failState = "S0_START"
               /\ failReason = Reason("foreground", NoScore, NoScore)

C15_EntersWaitLogin ==
    /\ []C15_Foreground
    /\ [][/\ (state # "S1_WAIT_LOGIN" /\ state' = "S1_WAIT_LOGIN") =>
               /\ pc = "s0_foreground" /\ state = "S0_START"
               /\ hist'.fg.called /\ hist'.fg.window /\ hist'.fg.focusOk
          /\ (pc \in FailPositions \cup {"done"}) => state' = state]_vars

C15_Witness ==
    /\ hist.fg.called /\ hist.fg.frameOnly
    /\ hist.fg.window /\ ~hist.fg.focusOk
    /\ pc = "fail_log" /\ state = "S0_START"

\* C16: the sentinel a tracker starts from is strictly lower than every score
\* the matcher can return, so the first score of a wait raises the tracker.
C16_FirstPollRegisters ==
    [][/\ (hist.maxC = NoScore /\ hist'.maxC # NoScore) =>
             (best_connecting = SENTINEL /\ best_connecting' > best_connecting)
       /\ (hist.maxM = NoScore /\ hist'.maxM # NoScore) =>
             (best_mainmenu = SENTINEL /\ best_mainmenu' > best_mainmenu)
       /\ (hist.maxB = NoScore /\ hist'.maxB # NoScore) =>
             (best_score = SENTINEL /\ best_score' > best_score)]_vars

\* The deadline is tested only at the top of an iteration: an iteration (its
\* first call) starts only while the elapsed time since the wait was entered is
\* within the timeout, and a timeout failure is raised only at the top of the
\* loop with the timeout exceeded.
DeadlineAtTopOnly ==
    [][/\ (pc = "boot_head" /\ pc' = "boot_head" /\ clock' # clock) =>
             clock - start <= TIMEOUT_GAME_BOOT
       /\ (pc = "rd_head" /\ pc' = "rd_capture") =>
             clock - start <= GAME_READY_TIMEOUT
       /\ (pc = "wl_head" /\ pc' = "wl_conn") =>
             clock - start <= TIMEOUT_S1_WAIT_LOGIN
       /\ (pc = "wm_head" /\ pc' = "wm_match") =>
             clock - start <= TIMEOUT_S3_WAIT_MAINMENU
       /\ (pc # "fail_log" /\ pc' = "fail_log" /\ failReason'[1] = "ready") =>
             (pc = "rd_head" /\ clock - start > GAME_READY_TIMEOUT)
       /\ (pc # "fail_log" /\ pc' = "fail_log" /\ failReason'[1] = "loginTimeout") =>
             (pc = "wl_head" /\ clock - start > TIMEOUT_S1_WAIT_LOGIN)
       /\ (pc # "fail_log" /\ pc' = "fail_log" /\ failReason'[1] = "mainmenuTimeout") =>
             (pc = "wm_head" /\ clock - start > TIMEOUT_S3_WAIT_MAINMENU)]_vars

ClickPointFrame ==
    LET width == hist.right - hist.left
        height == hist.bottom - hist.top
    IN IF hist.w = "normal" /\ width > 0 /\ height > 0
       THEN /\ hist.point.some
            /\ hist.left <= hist.point.x /\ hist.point.x < hist.left + width
            /\ hist.top <= hist.point.y /\ hist.point.y < hist.top + height
            /\ \A l \in Lefts, t \in Tops :
                  LET q == WindowSafeClickPoint(hist.w, l, t, l + width, t + height)
                  IN /\ q.x - l = hist.point.x - hist.left
                     /\ q.y - t = hist.point.y - hist.top
            /\ pc = "cp_done" => hist.clicked = hist.point
            /\ pc # "fail_log"
       ELSE /\ hist.point = NoPoint
            /\ hist.clicked = NoPoint
            /\ pc # "cp_done"

\* C18 as claimed: for a rectangle of positive width and height the point is
\* (left + floor(0.70 * width), top + floor(0.55 * height)), its offset does not
\* depend on the position, it lies inside the rectangle; without a rectangle
\* there is no point and no click.
C18_ClickPointFloor ==
    pc \in {"cp_click", "cp_done", "fail_log"} =>
        /\ ClickPointFrame
        /\ hist.point.some =>
              /\ hist.point.x = hist.left + (70 * (hist.right - hist.left)) \div 100
              /\ hist.point.y = hist.top + (55 * (hist.bottom - hist.top)) \div 100

\* C18 amended: as claimed, except that x is left + int(width * 0.70) in double
\* arithmetic: left + floor(0.70 * width) when 0.70 * width is not whole, and
\* that or one less when it is whole.
C18_ClickPointDouble ==
    pc \in {"cp_click", "cp_done", "fail_log"} =>
        /\ ClickPointFrame
        /\ hist.point.some =>
              LET width == hist.right - hist.left
                  dx == hist.point.x - hist.left
              IN /\ (70 * width) % 100 # 0 => dx = (70 * width) \div 100
                 /\ (70 * width) % 100 = 0 =>
                        dx \in {(70 * width) \div 100 - 1, (70 * width) \div 100}
                 /\ hist.point.y = hist.top + (55 * (hist.bottom - hist.top)) \div 100

C18_Witness ==
    /\ pc = "cp_done"
    /\ hist.left = -3 /\ hist.right - hist.left = MaxWidth
    /\ hist.top = 5 /\ hist.bottom - hist.top = MaxHeight
    /\ hist.clicked = [some |-> TRUE, x |-> 59, y |-> 16]

\* C19: no run enters S2_CLICK_LOGIN: wait_login_with_safe_clicks hands the run
\* to S3_WAIT_MAINMENU or S_OK only (or the run fails), and every click of a run
\* is the safe-point click of S1_WAIT_LOGIN, made after the cooldown test passed.
C19_NeverClickLogin ==
    /\ [](state # "S2_CLICK_LOGIN" /\ pc # "s2_click")
    /\ [][/\ (state = "S1_WAIT_LOGIN" /\ state' # state) =>
                state' \in {"S3_WAIT_MAINMENU", "S_OK"}
          /\ hist'.clickCount > hist.clickCount =>
                /\ pc = "wl_point" /\ state = "S1_WAIT_LOGIN"
                /\ now # NoTime /\ ~InCooldown(now, last_click_ts)
                /\ last_click_ts' = now]_vars

C19_Witness ==
    /\ state = "S3_WAIT_MAINMENU"
    /\ pc = "wm_match"
    /\ hist.clickCount >= 1
    /\ hist.connHit

\* The last call was for the connecting marker, it matched, and the frame also
\* correlates with the main-menu marker at or above the threshold.
BothMarkersInFrame(call) ==
    /\ call.called /\ ~call.raised
    /\ call.marker = "connecting" /\ call.matched
    /\ call.fits /\ call.main >= TEMPLATE_MATCH_THRESHOLD

\* C20: when the frame of a WaitLogin iteration matches both markers, the
\* connecting marker wins: the run goes to S3_WAIT_MAINMENU, not to S_OK, the
\* main-menu marker is not evaluated on that frame (its tracker keeps its
\* value), wait_for_marker starts from nothing, and S_OK is then entered only
\* by a main-menu match of wait_for_marker on a frame captured in
\* S3_WAIT_MAINMENU.
C20_ConnectingFirst ==
    /\ [](BothMarkersInFrame(hist.tm) =>
            /\ state = "S3_WAIT_MAINMENU" /\ pc = "wm_head"
            /\ ~hist.mainHit /\ ~hist.okLogged
            /\ img = NoFrame
            /\ best_score = SENTINEL /\ hist.maxB = NoScore)
    /\ [][/\ BothMarkersInFrame(hist'.tm) =>
                /\ pc = "wl_conn" /\ img.main >= TEMPLATE_MATCH_THRESHOLD
                /\ best_mainmenu' = best_mainmenu
                /\ hist'.maxM = hist.maxM
          /\ (hist.connHit /\ state # "S_OK" /\ state' = "S_OK") =>
                /\ state = "S3_WAIT_MAINMENU" /\ pc = "wm_match"
                /\ img # NoFrame /\ img.main >= TEMPLATE_MATCH_THRESHOLD
                /\ hist'.tm.marker = "mainmenu" /\ hist'.tm.matched
                /\ hist'.maxB >= TEMPLATE_MATCH_THRESHOLD]_vars

C20_Witness ==
    /\ BothMarkersInFrame(hist.tm)
    /\ hist.tm.main = TEMPLATE_MATCH_THRESHOLD
    /\ best_mainmenu = TEMPLATE_MATCH_THRESHOLD - 1
    /\ state = "S3_WAIT_MAINMENU"
    /\ hist.clickCount = 1

\* What a due click of WaitLogin leads to, by what the window allowed.
DueClickOutcome ==
    hist.due.called =>
        /\ ~(hist.due.window /\ hist.due.focusOk) =>
               /\ ~hist.due.rectAsked
               /\ pc = "fail_log"
               /\ failReason = Reason("safeClickFocus", NoScore, NoScore)
        /\ (hist.due.rectAsked /\ ~hist.due.rectOk) =>
               /\ pc = "fail_log"
               /\ failReason = Reason("safeClickPoint", NoScore, NoScore)
        /\ pc = "fail_log" =>
               /\ state = "S1_WAIT_LOGIN" /\ failState = "S1_WAIT_LOGIN"
               /\ hist.failCount = 0

\* C21: when a click is due in WaitLogin (no marker matched, cooldown test
\* passed) and the window is absent or refuses the focus, or has no proper
\* rectangle, fail() is called at once from S1_WAIT_LOGIN with that reason and
\* not with a timeout; that step injects no click and leaves last_click_ts
\* alone.  last_click_ts changes only in a step that injects a click, and
\* never decreases.
C21_DueClickFailure ==
    /\ []DueClickOutcome
    /\ [][/\ (hist'.due.called /\ pc' = "fail_log") =>
                /\ pc \in {"wl_focus", "wl_point"}
                /\ now # NoTime /\ ~InCooldown(now, last_click_ts)
                /\ ~hist.connHit /\ ~hist.mainHit
                /\ hist'.clickCount = hist.clickCount
                /\ last_click_ts' = last_click_ts
          /\ last_click_ts' # last_click_ts =>
                /\ hist'.clickCount = hist.clickCount + 1
                /\ last_click_ts' = now
          /\ last_click_ts' >= last_click_ts]_vars

\* A second click was due within the deadline, the window had lost its
\* rectangle, and fail() is entered with the time of the first click kept.
C21_Witness ==
    /\ hist.due.called /\ hist.due.window /\ hist.due.focusOk
    /\ hist.due.rectAsked /\ ~hist.due.rectOk
    /\ pc = "fail_log"
    /\ clock - start <= TIMEOUT_S1_WAIT_LOGIN
    /\ hist.clickCount = 1
    /\ last_click_ts >= ClockStart
    /\ last_click_ts = hist.lastInject

====
